---- MODULE Spec2Model ----
(***************************************************************************)
(* Presence registry (UserService / InMemoryUserStore) and the socket      *)
(* event handlers of the chat server.                                      *)
(*                                                                         *)
(* A string is a sequence of one-character strings, so that trim,          *)
(* toLowerCase, length and the character classes of the validation         *)
(* schemas are computed and not assumed.                                   *)
(***************************************************************************)
EXTENDS Integers, Sequences, FiniteSets, TLC

VARIABLES
    users,          \* InMemoryUserStore.users: Map<id, User>, in insertion order
    usernameIndex,  \* InMemoryUserStore.usernameIndex: Map<lowercase name, id>
    last,           \* the last UserService.join / leave call and what it returned
    joins,          \* per room key: number of successful joins so far
    leaves,         \* per room key: number of successful leaves so far
    sockets,        \* per connection id: "new", "open" or "closed"
    socketData,     \* per connection id: socket.data.user (a User or undefined)
    socketRooms,    \* per connection id: the rooms the socket is subscribed to
    outbox,         \* the events emitted by the last handler, in emission order
    process,        \* "running", or "exited" after an uncaught exception
    validation,     \* a schema applied on its own: the input and what it returned
    request,        \* the event the last handler was dispatched for
    unannounced,    \* per connection: the names that joined after it did and
                    \* whose joined notice it has not received
    snapshots       \* per open connection and room label: the last roomUsers
                    \* payload delivered to it

vars == <<users, usernameIndex, last, joins, leaves,
          sockets, socketData, socketRooms, outbox, process, validation, request,
          unannounced, snapshots>>

socketVars ==
    <<sockets, socketData, socketRooms, outbox, process, request, unannounced, snapshots>>

-----------------------------------------------------------------------------
(* Bounds *)

MaxJoins == 3       \* successful joins explored per behaviour
MaxRawLen == 3      \* length of the raw strings a schema is applied to on its own

-----------------------------------------------------------------------------
(* Strings *)

UpperLetters ==
    <<"A","B","C","D","E","F","G","H","I","J","K","L","M",
      "N","O","P","Q","R","S","T","U","V","W","X","Y","Z">>

LowerLetters ==
    <<"a","b","c","d","e","f","g","h","i","j","k","l","m",
      "n","o","p","q","r","s","t","u","v","w","x","y","z">>

Digits == {"0","1","2","3","4","5","6","7","8","9"}

Range(f) == {f[i] : i \in DOMAIN f}

UpperSet == Range(UpperLetters)

LowerSet == Range(LowerLetters)

LowerOf ==
    [c \in UpperSet |->
        LowerLetters[CHOOSE i \in DOMAIN UpperLetters : UpperLetters[i] = c]]

toLowerCaseChar(c) == IF c \in UpperSet THEN LowerOf[c] ELSE c

\* String.prototype.toLowerCase
toLowerCase(s) == [i \in 1..Len(s) |-> toLowerCaseChar(s[i])]

isWhitespace(c) == c \in {" ", "\t", "\n"}

RECURSIVE trimStart(_)
trimStart(s) ==
    IF s # <<>> /\ isWhitespace(Head(s)) THEN trimStart(Tail(s)) ELSE s

RECURSIVE trimEnd(_)
trimEnd(s) ==
    IF s # <<>> /\ isWhitespace(s[Len(s)])
    THEN trimEnd(SubSeq(s, 1, Len(s) - 1))
    ELSE s

\* String.prototype.trim
trim(s) == trimEnd(trimStart(s))

repeat(c, n) == [i \in 1..n |-> c]

-----------------------------------------------------------------------------
(* Result<T, E> *)

undefined == [undefined |-> TRUE]

success(data) == [success |-> TRUE, data |-> data]

failure(error) == [success |-> FALSE, error |-> error]

UserError(message, code) == [message |-> message, code |-> code]

-----------------------------------------------------------------------------
(* Map<string, User>: entries in insertion order, keyed by the user's id *)

MapHas(m, id) == \E i \in 1..Len(m) : m[i].id = id

MapGet(m, id) ==
    IF MapHas(m, id)
    THEN m[CHOOSE i \in 1..Len(m) : m[i].id = id]
    ELSE undefined

MapSet(m, user) ==
    IF MapHas(m, user.id)
    THEN [i \in 1..Len(m) |-> IF m[i].id = user.id THEN user ELSE m[i]]
    ELSE Append(m, user)

MapDelete(m, id) == SelectSeq(m, LAMBDA u : u.id # id)

IndexSet(ix, key, id) == (key :> id) @@ ix

IndexDelete(ix, key) == [k \in DOMAIN ix \ {key} |-> ix[k]]

-----------------------------------------------------------------------------
(* InMemoryUserStore *)

User(id, username, room) == [id |-> id, username |-> username, room |-> room]

\* add, had it stored the name under its index key
add_LowercaseName(user) ==
    /\ users' = MapSet(users, [user EXCEPT !.username = toLowerCase(user.username)])
    /\ usernameIndex' = IndexSet(usernameIndex, toLowerCase(user.username), user.id)

add(user) ==
    /\ users' = MapSet(users, user)
    /\ usernameIndex' = IndexSet(usernameIndex, toLowerCase(user.username), user.id)

\* remove, had it deleted by position without testing that the id was found
\* (position -1 takes the last entry)
remove_Unguarded(id) ==
    LET user == MapGet(users, id) IN
    IF user # undefined
    THEN /\ users' = MapDelete(users, id)
         /\ usernameIndex' = IndexDelete(usernameIndex, toLowerCase(user.username))
    ELSE /\ users' = SubSeq(users, 1, Len(users) - 1)
         /\ UNCHANGED usernameIndex

remove(id) ==
    LET user == MapGet(users, id) IN
    IF user # undefined
    THEN /\ users' = MapDelete(users, id)
         /\ usernameIndex' = IndexDelete(usernameIndex, toLowerCase(user.username))
    ELSE UNCHANGED <<users, usernameIndex>>

findById(id) == MapGet(users, id)

\* findByUsername, had it looked the name up as typed
findByUsername_CaseSensitive(username) ==
    IF username \in DOMAIN usernameIndex
    THEN MapGet(users, usernameIndex[username])
    ELSE undefined

findByUsername(username) ==
    LET key == toLowerCase(username) IN
    IF key \in DOMAIN usernameIndex
    THEN MapGet(users, usernameIndex[key])
    ELSE undefined

\* findByRoom, had it compared the labels as typed
findByRoom_CaseSensitive(room) ==
    SelectSeq(users, LAMBDA user : user.room = room)

findByRoom(room) ==
    SelectSeq(users, LAMBDA user : toLowerCase(user.room) = toLowerCase(room))

getAll == users

-----------------------------------------------------------------------------
(* UserService *)

JoinCall(id, username, room, ret) ==
    [op |-> "join", id |-> id, username |-> username, room |-> room, ret |-> ret]

LeaveCall(id, ret) == [op |-> "leave", id |-> id, ret |-> ret]

NoCall == [op |-> "none"]

\* join, had it written the name index before the duplicate check
join_IndexBeforeCheck(id, username, room) ==
    LET existingUser == findByUsername(username) IN
    IF existingUser # undefined
    THEN /\ last' = JoinCall(id, username, room,
                         failure(UserError("Username is already taken", "USERNAME_TAKEN")))
         /\ usernameIndex' = IndexSet(usernameIndex, toLowerCase(username), id)
         /\ UNCHANGED users
    ELSE LET user == User(id, username, room) IN
         /\ add(user)
         /\ last' = JoinCall(id, username, room, success(user))

join(id, username, room) ==
    LET existingUser == findByUsername(username) IN
    IF existingUser # undefined
    THEN /\ last' = JoinCall(id, username, room,
                         failure(UserError("Username is already taken", "USERNAME_TAKEN")))
         /\ UNCHANGED <<users, usernameIndex>>
    ELSE LET user == User(id, username, room) IN
         /\ add(user)
         /\ last' = JoinCall(id, username, room, success(user))

getById(id) == findById(id)

getByUsername(username) == findByUsername(username)

leave_LookupOnly(id) ==
    /\ last' = LeaveCall(id, findById(id))
    /\ UNCHANGED <<users, usernameIndex>>

leave(id) ==
    /\ last' = LeaveCall(id, findById(id))
    /\ remove(id)

getRoomUsers(room) == findByRoom(room)

isUsernameAvailable(username) == findByUsername(username) = undefined

\* distinctRooms, had it collected the rooms in an array instead of a Set
distinctRooms_NoSet(us, rooms) == rooms \o [i \in 1..Len(us) |-> us[i].room]

RECURSIVE distinctRooms(_, _)
distinctRooms(us, rooms) ==
    IF us = <<>> THEN rooms
    ELSE distinctRooms(Tail(us),
                       IF Head(us).room \in Range(rooms)
                       THEN rooms
                       ELSE Append(rooms, Head(us).room))

getActiveRooms == distinctRooms(getAll, <<>>)

-----------------------------------------------------------------------------
(* Validation schemas (zod): a parse yields the data or the list of issues *)

parsed(data) == [success |-> TRUE, data |-> data]

issuesOf(messages) == [success |-> FALSE, issues |-> messages]

issueIf(cond, message) == IF cond THEN <<message>> ELSE <<>>

isLetterOrDigit(c) ==
    \/ c \in LowerSet
    \/ c \in UpperSet
    \/ c \in Digits

\* /^[a-zA-Z0-9_-]+$/
matchesUsername(s) ==
    /\ Len(s) >= 1
    /\ \A i \in 1..Len(s) : isLetterOrDigit(s[i]) \/ s[i] \in {"_", "-"}

\* /^[a-zA-Z0-9_\- ]+$/
matchesRoom(s) ==
    /\ Len(s) >= 1
    /\ \A i \in 1..Len(s) : isLetterOrDigit(s[i]) \/ s[i] \in {"_", "-", " "}

UsernameMin == 2
UsernameMax == 20
RoomMin == 1
RoomMax == 50
MessageMin == 1
MessageMax == 1000

usernameSchema_ChecksRaw(val) ==
    LET issues ==
            issueIf(Len(val) < UsernameMin, "Username must be at least 2 characters")
            \o issueIf(Len(val) > UsernameMax, "Username must be at most 20 characters")
            \o issueIf(~matchesUsername(val),
                       "Username can only contain letters, numbers, underscores, and hyphens")
    IN IF issues = <<>> THEN parsed(trim(val)) ELSE issuesOf(issues)

usernameSchema(val) ==
    LET v == trim(val)
        issues ==
            issueIf(Len(v) < UsernameMin, "Username must be at least 2 characters")
            \o issueIf(Len(v) > UsernameMax, "Username must be at most 20 characters")
            \o issueIf(~matchesUsername(v),
                       "Username can only contain letters, numbers, underscores, and hyphens")
    IN IF issues = <<>> THEN parsed(v) ELSE issuesOf(issues)

roomSchema(val) ==
    LET issues ==
            issueIf(Len(val) < RoomMin, "Room name is required")
            \o issueIf(Len(val) > RoomMax, "Room name must be at most 50 characters")
            \o issueIf(~matchesRoom(val),
                       "Room name can only contain letters, numbers, spaces, underscores, and hyphens")
    IN IF issues = <<>> THEN parsed(trim(val)) ELSE issuesOf(issues)

escapeChar(c) ==
    CASE c = "<" -> <<"&", "l", "t", ";">>
      [] c = ">" -> <<"&", "g", "t", ";">>
      [] c = "\"" -> <<"&", "q", "u", "o", "t", ";">>
      [] c = "'" -> <<"&", "#", "x", "2", "7", ";">>
      [] OTHER -> <<c>>

\* String.prototype.replace with a global one-character pattern: every
\* occurrence of c becomes the replacement, left to right.  The string is
\* halved at each step so that the evaluation depth stays logarithmic.
RECURSIVE replaceAll(_, _, _)
replaceAll(s, c, replacement) ==
    IF Len(s) = 0 THEN <<>>
    ELSE IF Len(s) = 1 THEN (IF s[1] = c THEN replacement ELSE s)
    ELSE LET half == Len(s) \div 2 IN
         replaceAll(SubSeq(s, 1, half), c, replacement)
         \o replaceAll(SubSeq(s, half + 1, Len(s)), c, replacement)

escapeHtml_NoApostrophe(s) ==
    replaceAll(
        replaceAll(
            replaceAll(s, "<", escapeChar("<")),
            ">", escapeChar(">")),
        "\"", escapeChar("\""))

escapeHtml(s) ==
    replaceAll(
        replaceAll(
            replaceAll(
                replaceAll(s, "<", escapeChar("<")),
                ">", escapeChar(">")),
            "\"", escapeChar("\"")),
        "'", escapeChar("'"))

messageSchema(val) ==
    LET issues ==
            issueIf(Len(val) < MessageMin, "Message cannot be empty")
            \o issueIf(Len(val) > MessageMax, "Message must be at most 1000 characters")
    IN IF issues = <<>> THEN parsed(escapeHtml(trim(val))) ELSE issuesOf(issues)

joinRoomSchema(data) ==
    IF data = undefined THEN issuesOf(<<"Required">>)
    ELSE
    LET username == usernameSchema(data.username)
        room == roomSchema(data.room)
        issues == (IF username.success THEN <<>> ELSE username.issues)
                  \o (IF room.success THEN <<>> ELSE room.issues)
    IN IF issues = <<>>
       THEN parsed([username |-> username.data, room |-> room.data])
       ELSE issuesOf(issues)

ValidationError(message) == [code |-> "VALIDATION_ERROR", message |-> message]

validate(result) ==
    IF ~result.success
    THEN failure(ValidationError(result.issues[1]))
    ELSE success(result.data)

-----------------------------------------------------------------------------
(* MessageService: the rendered time of a message is not modelled *)

BotName == "XeroxChat Bot"

format(username, text) == [username |-> username, text |-> text]

botMessage(text) == format(BotName, text)

welcome == botMessage(<<"Welcome to XeroxChat!">>)

userJoined(username) == botMessage(username \o <<" has joined the chat!">>)

userLeft(username) == botMessage(username \o <<" has left the chat!">>)

-----------------------------------------------------------------------------
(* Inputs *)

SocketIds == {"c1", "c2"}

GoodRawUsernames == { <<" ", "a", "l", " ">>, <<"A", "l">>, <<"b", "o">> }

BadRawUsernames == { <<"a">>, <<"a", "!">>, repeat("a", UsernameMax + 1) }

RawUsernames == GoodRawUsernames \cup BadRawUsernames

GoodRawRooms == { <<"g">>, <<"G", " ">>, <<" ">> }

BadRawRooms == { <<>>, <<"g", "!">>, repeat("g", RoomMax + 1) }

RawRooms == GoodRawRooms \cup BadRawRooms

RawMessages ==
    { <<"h", "i">>, <<"<", "b", "\"", "'", ">">>, <<" ">>, <<>>,
      repeat("x", MessageMax + 1) }

\* every pair of acceptable fields, each unacceptable field on its own,
\* two unacceptable fields together, and a missing payload
JoinRoomPayloads ==
    {[username |-> u, room |-> r] : u \in GoodRawUsernames, r \in GoodRawRooms}
    \cup {[username |-> u, room |-> <<"g">>] : u \in BadRawUsernames}
    \cup {[username |-> <<"b", "o">>, room |-> r] : r \in BadRawRooms}
    \cup {[username |-> <<"a">>, room |-> <<>>], undefined}

TypingPayloads == {[isTyping |-> TRUE], [isTyping |-> FALSE], undefined}

\* what the schemas let through: the names and rooms the registry is called with
Usernames == {usernameSchema(u).data : u \in {v \in RawUsernames : usernameSchema(v).success}}

Rooms == {roomSchema(r).data : r \in {v \in RawRooms : roomSchema(v).success}}

RoomKeys == {toLowerCase(r) : r \in Rooms}

\* a third connection and a third name, for the runs with three clients
CrowdIds == SocketIds \cup {"c3"}

CrowdRawUsernames == { <<"b", "o">>, <<"A", "l">>, <<"c", "y">> }

CrowdRawRooms == { <<"g">>, <<"G">> }

CrowdJoinPayloads ==
    {[username |-> u, room |-> r] : u \in CrowdRawUsernames, r \in CrowdRawRooms}

UserRecords ==
    {User(id, n, r) : id \in CrowdIds, n \in Usernames \cup CrowdRawUsernames, r \in Rooms}

-----------------------------------------------------------------------------
(* Counting the successful joins and leaves of each room *)

RECURSIVE Sum(_, _)
Sum(f, S) ==
    IF S = {} THEN 0
    ELSE LET x == CHOOSE y \in S : TRUE IN f[x] + Sum(f, S \ {x})

TotalJoins == Sum(joins, RoomKeys)

Tally ==
    /\ joins' = IF last'.op = "join" /\ last'.ret.success
                THEN [joins EXCEPT ![toLowerCase(last'.room)] = @ + 1]
                ELSE joins
    /\ leaves' = IF last'.op = "leave" /\ last'.ret # undefined
                 THEN [leaves EXCEPT ![toLowerCase(last'.ret.room)] = @ + 1]
                 ELSE leaves

\* a join that would succeed is explored only below the bound
WithinBound(username) ==
    findByUsername(username) = undefined => TotalJoins < MaxJoins

-----------------------------------------------------------------------------
(* Socket.IO: emitting to a socket, to a room, to a room except the sender *)

emit(to, event, payload) == [to |-> to, event |-> event, payload |-> payload]

ioTo(room) == {s \in DOMAIN sockets : sockets[s] = "open" /\ room \in socketRooms[s]}

broadcastTo(socket, room) == ioTo(room) \ {socket}

-----------------------------------------------------------------------------
(* Socket event handlers *)

broadcastRoomUsers(room) ==
    emit(ioTo(room), "roomUsers", [room |-> room, users |-> getRoomUsers(room)])

handleJoinRoom_ErrorToAll(socket, data) ==
    LET validationResult == validate(joinRoomSchema(data)) IN
    IF ~validationResult.success
    THEN /\ outbox' = <<emit({s \in SocketIds : sockets[s] = "open"}, "usernameError",
                           validationResult.error.message)>>
         /\ last' = NoCall
         /\ UNCHANGED <<users, usernameIndex, sockets, socketData, socketRooms, process>>
    ELSE /\ join(socket, validationResult.data.username, validationResult.data.room)
         /\ UNCHANGED <<sockets, process>>
         /\ IF ~last'.ret.success
            THEN /\ outbox' = <<emit({socket}, "usernameError", last'.ret.error.message)>>
                 /\ UNCHANGED <<socketData, socketRooms>>
            ELSE \E user \in UserRecords :
                 /\ user = last'.ret.data
                 /\ socketData' = [socketData EXCEPT ![socket] = user]
                 /\ socketRooms' = [socketRooms EXCEPT ![socket] = @ \cup {user.room}]
                 /\ outbox' = << emit({socket}, "message", welcome),
                                 emit(broadcastTo(socket, user.room)', "message",
                                      userJoined(user.username)),
                                 broadcastRoomUsers(user.room)' >>

handleJoinRoom_SubscribesFirst(socket, data) ==
    LET validationResult == validate(joinRoomSchema(data)) IN
    IF ~validationResult.success
    THEN /\ outbox' = <<emit({socket}, "usernameError", validationResult.error.message)>>
         /\ last' = NoCall
         /\ UNCHANGED <<users, usernameIndex, sockets, socketData, socketRooms, process>>
    ELSE /\ join(socket, validationResult.data.username, validationResult.data.room)
         /\ UNCHANGED <<sockets, process>>
         /\ IF ~last'.ret.success
            THEN /\ outbox' = <<emit({socket}, "usernameError", last'.ret.error.message)>>
                 /\ socketRooms' = [socketRooms EXCEPT ![socket] = @ \cup {last'.room}]
                 /\ UNCHANGED socketData
            ELSE \E user \in UserRecords :
                 /\ user = last'.ret.data
                 /\ socketData' = [socketData EXCEPT ![socket] = user]
                 /\ socketRooms' = [socketRooms EXCEPT ![socket] = @ \cup {user.room}]
                 /\ outbox' = << emit({socket}, "message", welcome),
                                 emit(broadcastTo(socket, user.room)', "message",
                                      userJoined(user.username)),
                                 broadcastRoomUsers(user.room)' >>

handleJoinRoom_SnapshotFirst(socket, data) ==
    LET validationResult == validate(joinRoomSchema(data)) IN
    IF ~validationResult.success
    THEN /\ outbox' = <<emit({socket}, "usernameError", validationResult.error.message)>>
         /\ last' = NoCall
         /\ UNCHANGED <<users, usernameIndex, sockets, socketData, socketRooms, process>>
    ELSE /\ join(socket, validationResult.data.username, validationResult.data.room)
         /\ UNCHANGED <<sockets, process>>
         /\ IF ~last'.ret.success
            THEN /\ outbox' = <<emit({socket}, "usernameError", last'.ret.error.message)>>
                 /\ UNCHANGED <<socketData, socketRooms>>
            ELSE \E user \in UserRecords :
                 /\ user = last'.ret.data
                 /\ socketData' = [socketData EXCEPT ![socket] = user]
                 /\ socketRooms' = [socketRooms EXCEPT ![socket] = @ \cup {user.room}]
                 /\ outbox' = << broadcastRoomUsers(user.room)',
                                 emit({socket}, "message", welcome),
                                 emit(broadcastTo(socket, user.room)', "message",
                                      userJoined(user.username)) >>

\* A variant that does not cache the identity on the connection.
handleJoinRoom_NoCache(socket, data) ==
    LET validationResult == validate(joinRoomSchema(data)) IN
    IF ~validationResult.success
    THEN /\ outbox' = <<emit({socket}, "usernameError", validationResult.error.message)>>
         /\ last' = NoCall
         /\ UNCHANGED <<users, usernameIndex, sockets, socketData, socketRooms, process>>
    ELSE /\ join(socket, validationResult.data.username, validationResult.data.room)
         /\ UNCHANGED <<sockets, process>>
         /\ IF ~last'.ret.success
            THEN /\ outbox' = <<emit({socket}, "usernameError", last'.ret.error.message)>>
                 /\ UNCHANGED <<socketData, socketRooms>>
            ELSE \E user \in UserRecords :
                 /\ user = last'.ret.data
                 /\ UNCHANGED socketData
                 /\ socketRooms' = [socketRooms EXCEPT ![socket] = @ \cup {user.room}]
                 /\ outbox' = << emit({socket}, "message", welcome),
                                 emit(broadcastTo(socket, user.room)', "message",
                                      userJoined(user.username)),
                                 broadcastRoomUsers(user.room)' >>

handleJoinRoom(socket, data) ==
    LET validationResult == validate(joinRoomSchema(data)) IN
    IF ~validationResult.success
    THEN /\ outbox' = <<emit({socket}, "usernameError", validationResult.error.message)>>
         /\ last' = NoCall
         /\ UNCHANGED <<users, usernameIndex, sockets, socketData, socketRooms, process>>
    ELSE /\ join(socket, validationResult.data.username, validationResult.data.room)
         /\ UNCHANGED <<sockets, process>>
         /\ IF ~last'.ret.success
            THEN /\ outbox' = <<emit({socket}, "usernameError", last'.ret.error.message)>>
                 /\ UNCHANGED <<socketData, socketRooms>>
            ELSE \E user \in UserRecords :
                 /\ user = last'.ret.data
                 /\ socketData' = [socketData EXCEPT ![socket] = user]
                 /\ socketRooms' = [socketRooms EXCEPT ![socket] = @ \cup {user.room}]
                 /\ outbox' = << emit({socket}, "message", welcome),
                                 emit(broadcastTo(socket, user.room)', "message",
                                      userJoined(user.username)),
                                 broadcastRoomUsers(user.room)' >>

handleChatMessage_ValidatesFirst(socket, msg) ==
    LET user == IF socketData[socket] # undefined
                THEN socketData[socket]
                ELSE getById(socket)
        validationResult == validate(messageSchema(msg))
    IN
    /\ last' = NoCall
    /\ UNCHANGED <<users, usernameIndex, sockets, socketData, socketRooms, process>>
    /\ IF ~validationResult.success
       THEN outbox' = <<emit({socket}, "error",
                             [code |-> "INVALID_MESSAGE",
                              message |-> validationResult.error.message])>>
       ELSE IF user = undefined
            THEN outbox' = <<emit({socket}, "error",
                                  [code |-> "USER_NOT_FOUND",
                                   message |-> "You must join a room first"])>>
            ELSE outbox' = <<emit(ioTo(user.room), "message",
                                  format(user.username, validationResult.data))>>

handleChatMessage_ErrorToRoom(socket, msg) ==
    LET user == IF socketData[socket] # undefined
                THEN socketData[socket]
                ELSE getById(socket)
    IN
    /\ last' = NoCall
    /\ UNCHANGED <<users, usernameIndex, sockets, socketData, socketRooms, process>>
    /\ IF user = undefined
       THEN outbox' = <<emit({socket}, "error",
                             [code |-> "USER_NOT_FOUND",
                              message |-> "You must join a room first"])>>
       ELSE LET validationResult == validate(messageSchema(msg)) IN
            IF ~validationResult.success
            THEN outbox' = <<emit(ioTo(user.room), "error",
                                  [code |-> "INVALID_MESSAGE",
                                   message |-> validationResult.error.message])>>
            ELSE outbox' = <<emit(ioTo(user.room), "message",
                                  format(user.username, validationResult.data))>>

handleChatMessage(socket, msg) ==
    LET user == IF socketData[socket] # undefined
                THEN socketData[socket]
                ELSE getById(socket)
    IN
    /\ last' = NoCall
    /\ UNCHANGED <<users, usernameIndex, sockets, socketData, socketRooms, process>>
    /\ IF user = undefined
       THEN outbox' = <<emit({socket}, "error",
                             [code |-> "USER_NOT_FOUND",
                              message |-> "You must join a room first"])>>
       ELSE LET validationResult == validate(messageSchema(msg)) IN
            IF ~validationResult.success
            THEN outbox' = <<emit({socket}, "error",
                                  [code |-> "INVALID_MESSAGE",
                                   message |-> validationResult.error.message])>>
            ELSE LET sanitizedMessage == validationResult.data IN
                 outbox' = <<emit(ioTo(user.room), "message",
                                  format(user.username, sanitizedMessage))>>

handleTyping(socket, data) ==
    LET user == IF socketData[socket] # undefined
                THEN socketData[socket]
                ELSE getById(socket)
    IN
    /\ last' = NoCall
    /\ UNCHANGED <<users, usernameIndex, sockets, socketData, socketRooms>>
    /\ IF user = undefined
       THEN outbox' = <<>> /\ UNCHANGED process
       ELSE IF data = undefined
            \* data.isTyping throws a TypeError that nothing catches:
            \* the uncaughtException handler logs it and exits the process
            THEN outbox' = <<>> /\ process' = "exited"
            ELSE /\ outbox' = <<emit(broadcastTo(socket, user.room), "userTyping",
                                     [username |-> user.username,
                                      isTyping |-> data.isTyping])>>
                 /\ UNCHANGED process

\* Socket.IO has closed the socket and taken it out of its rooms when the
\* disconnect event is dispatched
handleDisconnect(socket) ==
    /\ sockets' = [sockets EXCEPT ![socket] = "closed"]
    /\ socketRooms' = [socketRooms EXCEPT ![socket] = {}]
    /\ leave(socket)
    /\ UNCHANGED <<socketData, process>>
    /\ IF last'.ret # undefined
       THEN \E user \in UserRecords :
            /\ user = last'.ret
            /\ outbox' = << emit(ioTo(user.room)', "message", userLeft(user.username)),
                            broadcastRoomUsers(user.room)' >>
       ELSE outbox' = <<>>

-----------------------------------------------------------------------------
(* The server: connections arrive, send events and disconnect *)

\* The roomUsers payloads a client holds: the one delivered last for each
\* room label; a closed connection holds none.
NoSnapshots == [room \in Rooms |-> undefined]

Receive ==
    snapshots' =
        [t \in DOMAIN snapshots |->
            IF sockets'[t] # "open" THEN NoSnapshots
            ELSE LET delivered == {i \in 1..Len(outbox') :
                                      outbox'[i].event = "roomUsers" /\ t \in outbox'[i].to}
                 IN [room \in Rooms |->
                        IF \E i \in delivered : outbox'[i].payload.room = room
                        THEN outbox'[CHOOSE i \in delivered :
                                         /\ outbox'[i].payload.room = room
                                         /\ \A j \in delivered :
                                                outbox'[j].payload.room = room => j <= i].payload
                        ELSE snapshots[t][room]]]

\* Which joined notices a connection has missed: a connection that joins has
\* missed none; a joined connection misses the name of a later joiner whose
\* notice is not delivered to it; names no longer in the registry are dropped.
Announce ==
    LET joined == request'.event = "joinRoom" /\ last'.op = "join" /\ last'.ret.success
        present == {users'[i].username : i \in 1..Len(users')}
    IN unannounced' =
        [t \in DOMAIN unannounced |->
            IF request'.socket = t /\ request'.event \in {"connection", "disconnect"}
            THEN {}
            ELSE IF joined /\ request'.socket = t
            THEN {}
            ELSE IF joined /\ findById(t) # undefined /\ t \notin outbox'[2].to
            THEN (unannounced[t] \cup {last'.ret.data.username}) \cap present
            ELSE IF joined
            THEN (unannounced[t] \ {last'.ret.data.username}) \cap present
            ELSE unannounced[t] \cap present]

\* the events registerSocketHandlers listens to, as they are dispatched
NoRequest == [event |-> "none"]

ConnectionEvent(socket) == [event |-> "connection", socket |-> socket]

JoinRoomEvent(socket, data) == [event |-> "joinRoom", socket |-> socket, data |-> data]

ChatMessageEvent(socket, msg) == [event |-> "chatMessage", socket |-> socket, msg |-> msg]

TypingEvent(socket, data) == [event |-> "typing", socket |-> socket, data |-> data]

DisconnectEvent(socket) == [event |-> "disconnect", socket |-> socket]

LeaveRoomEvent(socket) == [event |-> "leaveRoom", socket |-> socket]

Constructed ==
    /\ users = <<>>
    /\ usernameIndex = <<>>
    /\ last = NoCall
    /\ joins = [k \in RoomKeys |-> 0]
    /\ leaves = [k \in RoomKeys |-> 0]
    /\ sockets = [s \in SocketIds |-> "new"]
    /\ socketData = [s \in SocketIds |-> undefined]
    /\ socketRooms = [s \in SocketIds |-> {}]
    /\ outbox = <<>>
    /\ process = "running"
    /\ request = NoRequest
    /\ unannounced = [s \in SocketIds |-> {}]
    /\ snapshots = [s \in SocketIds |-> NoSnapshots]

NoValidation == [schema |-> "none", step |-> "none"]

Init ==
    /\ Constructed
    /\ validation = NoValidation

Connection(socket) ==
    /\ process = "running"
    /\ sockets[socket] = "new"
    /\ sockets' = [sockets EXCEPT ![socket] = "open"]
    /\ outbox' = <<>>
    /\ last' = NoCall
    /\ UNCHANGED <<users, usernameIndex, joins, leaves, socketData, socketRooms, process>>
    /\ request' = ConnectionEvent(socket)
    /\ Announce
    /\ Receive
    /\ UNCHANGED validation

OnJoinRoom(socket, data) ==
    /\ process = "running"
    /\ sockets[socket] = "open"
    /\ LET parse == joinRoomSchema(data) IN
       parse.success => WithinBound(parse.data.username)
    /\ request' = JoinRoomEvent(socket, data)
    /\ handleJoinRoom(socket, data)
    /\ Tally
    /\ Announce
    /\ Receive
    /\ UNCHANGED validation

OnChatMessage(socket, msg) ==
    /\ process = "running"
    /\ sockets[socket] = "open"
    /\ request' = ChatMessageEvent(socket, msg)
    /\ handleChatMessage(socket, msg)
    /\ Tally
    /\ Announce
    /\ Receive
    /\ UNCHANGED validation

OnTyping(socket, data) ==
    /\ process = "running"
    /\ sockets[socket] = "open"
    /\ request' = TypingEvent(socket, data)
    /\ handleTyping(socket, data)
    /\ Tally
    /\ Announce
    /\ Receive
    /\ UNCHANGED validation

\* leaveRoom is declared in ClientToServerEvents, but registerSocketHandlers
\* registers no listener for it: Socket.IO drops the event
OnLeaveRoom(socket) ==
    /\ process = "running"
    /\ sockets[socket] = "open"
    /\ request' = LeaveRoomEvent(socket)
    /\ outbox' = <<>>
    /\ last' = NoCall
    /\ UNCHANGED <<users, usernameIndex, sockets, socketData, socketRooms, process>>
    /\ Tally
    /\ Announce
    /\ Receive
    /\ UNCHANGED validation

OnDisconnect(socket) ==
    /\ process = "running"
    /\ sockets[socket] = "open"
    /\ request' = DisconnectEvent(socket)
    /\ handleDisconnect(socket)
    /\ Tally
    /\ Announce
    /\ Receive
    /\ UNCHANGED validation

Next ==
    \/ \E socket \in SocketIds : Connection(socket)
    \/ \E socket \in SocketIds, data \in JoinRoomPayloads : OnJoinRoom(socket, data)
    \/ \E socket \in SocketIds, msg \in RawMessages : OnChatMessage(socket, msg)
    \/ \E socket \in SocketIds, data \in TypingPayloads : OnTyping(socket, data)
    \/ \E socket \in SocketIds : OnLeaveRoom(socket)
    \/ \E socket \in SocketIds : OnDisconnect(socket)

Spec == Init /\ [][Next]_vars

-----------------------------------------------------------------------------
(* Three clients that connect, join and disconnect *)

CrowdInit ==
    /\ users = <<>>
    /\ usernameIndex = <<>>
    /\ last = NoCall
    /\ joins = [k \in RoomKeys |-> 0]
    /\ leaves = [k \in RoomKeys |-> 0]
    /\ sockets = [s \in CrowdIds |-> "new"]
    /\ socketData = [s \in CrowdIds |-> undefined]
    /\ socketRooms = [s \in CrowdIds |-> {}]
    /\ outbox = <<>>
    /\ process = "running"
    /\ request = NoRequest
    /\ unannounced = [s \in CrowdIds |-> {}]
    /\ snapshots = [s \in CrowdIds |-> NoSnapshots]
    /\ validation = NoValidation

CrowdNext ==
    \/ \E socket \in CrowdIds : Connection(socket)
    \/ \E socket \in CrowdIds, data \in CrowdJoinPayloads : OnJoinRoom(socket, data)
    \/ \E socket \in CrowdIds : OnDisconnect(socket)

CrowdSpec == CrowdInit /\ [][CrowdNext]_vars

-----------------------------------------------------------------------------
(* The registry on its own: join and leave called with any connection id *)

ServiceJoin(id, username, room) ==
    /\ WithinBound(username)
    /\ join(id, username, room)
    /\ Tally
    /\ UNCHANGED socketVars
    /\ UNCHANGED validation

ServiceLeave(id) ==
    /\ leave(id)
    /\ Tally
    /\ UNCHANGED socketVars
    /\ UNCHANGED validation

RegistryNext ==
    \/ \E id \in SocketIds, username \in Usernames, room \in Rooms :
           ServiceJoin(id, username, room)
    \/ \E id \in SocketIds : ServiceLeave(id)

RegistrySpec == Init /\ [][RegistryNext]_vars

-----------------------------------------------------------------------------
(* The schemas on their own: a raw string is validated, and what the schema
   returned is validated again *)

Strings(alphabet, n) == UNION {[1..k -> alphabet] : k \in 0..n}

UsernameInputs ==
    Strings({" ", "a", "Z", "7", "_", "-", "!"}, MaxRawLen)
    \cup { repeat("a", UsernameMax), repeat("a", UsernameMax + 1),
           <<" ">> \o repeat("a", UsernameMax) \o <<"\t">>,
           <<" ">> \o repeat("a", UsernameMax + 1) }

RoomInputs ==
    Strings({" ", "g", "G", "_", "!"}, MaxRawLen)
    \cup { repeat("g", RoomMax), repeat("g", RoomMax + 1),
           repeat("g", RoomMax) \o <<" ">> }

MessageInputs ==
    Strings({" ", "a", "&", "<", ">", "\"", "'"}, MaxRawLen)
    \cup { repeat("x", MessageMax), repeat("x", MessageMax + 1),
           repeat("<", MessageMax), <<" ">> \o repeat("x", MessageMax) }

ValidationInputs ==
    {[schema |-> "username", raw |-> raw, step |-> "raw"] : raw \in UsernameInputs}
    \cup {[schema |-> "room", raw |-> raw, step |-> "raw"] : raw \in RoomInputs}
    \cup {[schema |-> "message", raw |-> raw, step |-> "raw"] : raw \in MessageInputs}

applySchema(schema, val) ==
    CASE schema = "username" -> validate(usernameSchema(val))
      [] schema = "room" -> validate(roomSchema(val))
      [] schema = "message" -> validate(messageSchema(val))

ValidationInit ==
    /\ Constructed
    /\ validation \in ValidationInputs

Validate ==
    /\ validation.step = "raw"
    /\ validation' =
           [schema |-> validation.schema, raw |-> validation.raw, step |-> "validated",
            result |-> applySchema(validation.schema, validation.raw)]
    /\ UNCHANGED <<users, usernameIndex, last, joins, leaves, socketVars>>

ValidateAgain ==
    /\ validation.step = "validated"
    /\ validation.result.success
    /\ validation' =
           [schema |-> validation.schema, raw |-> validation.raw,
            step |-> "validated again", result |-> validation.result,
            again |-> applySchema(validation.schema, validation.result.data)]
    /\ UNCHANGED <<users, usernameIndex, last, joins, leaves, socketVars>>

ValidationNext == Validate \/ ValidateAgain

ValidationSpec == ValidationInit /\ [][ValidationNext]_vars

-----------------------------------------------------------------------------
(* Properties of the registry *)

ActiveIdentities == {findById(id) : id \in SocketIds} \ {undefined}

NameHeld(username) ==
    \E u \in ActiveIdentities : toLowerCase(u.username) = toLowerCase(username)

MembersOf(room) == Range(getRoomUsers(room))

RegistryUnchanged ==
    /\ users' = users
    /\ usernameIndex' = usernameIndex
    /\ getActiveRooms' = getActiveRooms
    /\ \A room \in Rooms : getRoomUsers(room)' = getRoomUsers(room)

\* C1: no two active identities have display names that are equal when
\* compared case-insensitively, after any interleaving of joins and leaves.
C1_UniqueNames ==
    \A i, j \in 1..Len(users) :
        i # j => toLowerCase(users[i].username) # toLowerCase(users[j].username)

\* a join was refused for a name that differs only in case from the name of
\* an identity that is still active, while another identity is active too
C1_Witness ==
    /\ last.op = "join"
    /\ ~last.ret.success
    /\ Len(users) = 2
    /\ \E u \in ActiveIdentities :
          /\ u.username # last.username
          /\ toLowerCase(u.username) = toLowerCase(last.username)

\* C2: a join whose name is held by an active identity fails with
\* USERNAME_TAKEN and leaves the identity table, the name index, every room's
\* membership and the active rooms as they were.
C2_FailedJoinChangesNothing ==
    [][(last'.op = "join" /\ NameHeld(last'.username)) =>
          /\ ~last'.ret.success
          /\ last'.ret.error.code = "USERNAME_TAKEN"
          /\ RegistryUnchanged]_vars

\* a join was refused with USERNAME_TAKEN by a connection other than the holder
C2_Witness ==
    /\ last.op = "join"
    /\ ~last.ret.success
    /\ last.ret.error.code = "USERNAME_TAKEN"
    /\ \E u \in ActiveIdentities :
          /\ u.id # last.id
          /\ toLowerCase(u.username) = toLowerCase(last.username)

\* C3: an identity stays in the registry unchanged until leave is executed
\* for its connection id, and a joinRoom request of a connection that has an
\* identity changes neither the registry nor the room subscriptions.
C3_IdentityKeptUntilLeave ==
    [][\A s \in SocketIds :
          findById(s) # undefined =>
             /\ findById(s)' # findById(s) => (last'.op = "leave" /\ last'.id = s)
             /\ (\E data \in JoinRoomPayloads : OnJoinRoom(s, data)) =>
                    UNCHANGED <<users, usernameIndex, socketRooms>>]_vars

\* C4: the room's member list has exactly N - M entries after N successful
\* joins to the room and M successful leaves from it.
C4_MembersAreJoinsMinusLeaves ==
    \A room \in Rooms :
        Len(getRoomUsers(room)) = joins[toLowerCase(room)] - leaves[toLowerCase(room)]

\* C5: getByName(n) is absent or an identity named n up to case, and it is
\* present exactly when some active identity has that name.
C5_GetByNameMatches ==
    \A n \in Usernames :
        LET found == getByUsername(n) IN
        /\ found # undefined => toLowerCase(found.username) = toLowerCase(n)
        /\ found # undefined <=> NameHeld(n)

\* C6: isNameAvailable(n) is false exactly when some active identity has the
\* name n up to case, so a join with a name nobody holds succeeds.
C6_AvailableIffNotHeld ==
    /\ \A n \in Usernames : isUsernameAvailable(n) <=> ~NameHeld(n)
    /\ (last.op = "join" /\ ~last.ret.success) => NameHeld(last.username)

\* C7: right after a successful join(c, name, room), getByConnection(c) is
\* the identity with that connection id, that name as typed, and that room.
C7_JoinThenGetById ==
    (last.op = "join" /\ last.ret.success) =>
        /\ getById(last.id) = User(last.id, last.username, last.room)
        /\ last.ret.data = User(last.id, last.username, last.room)

\* a join with an upper-case letter in the name succeeded
C7_Witness ==
    /\ last.op = "join"
    /\ last.ret.success
    /\ last.username # toLowerCase(last.username)
    /\ getById(last.id) # undefined

\* C8: leave(c) on a registered connection returns the identity and removes
\* it with every name-index entry that refers to c; its name is available again.
C8_LeaveRemovesEverything ==
    (last.op = "leave" /\ last.ret # undefined) =>
        /\ last.ret.id = last.id
        /\ getById(last.id) = undefined
        /\ \A key \in DOMAIN usernameIndex : usernameIndex[key] # last.id
        /\ isUsernameAvailable(last.ret.username)

\* C9: leave on a connection id without an identity returns absent and
\* changes nothing in the registry.
C9_LeaveUnknownChangesNothing ==
    [][(last'.op = "leave" /\ findById(last'.id) = undefined) =>
          /\ last'.ret = undefined
          /\ RegistryUnchanged]_vars

\* leave returned absent for a connection that had left before, while
\* another identity is in the registry
C9_Witness ==
    /\ last.op = "leave"
    /\ last.ret = undefined
    /\ users # <<>>
    /\ Sum(leaves, RoomKeys) >= 1

\* C10: roomMembers(r) is exactly the set of active identities whose room
\* equals r up to case, each listed once.
C10_RoomMembersExact ==
    \A room \in Rooms :
        /\ MembersOf(room) =
              {u \in ActiveIdentities : toLowerCase(u.room) = toLowerCase(room)}
        /\ Len(getRoomUsers(room)) = Cardinality(MembersOf(room))
        /\ (last.op = "leave" /\ last.ret # undefined) => last.ret \notin MembersOf(room)

\* two identities whose room labels differ only in case are listed together,
\* and another room is empty
C10_Witness ==
    /\ \E u, v \in MembersOf(<<"G">>) : u.room = <<"g">> /\ v.room = <<"G">>
    /\ \E room \in Rooms : getRoomUsers(room) = <<>>

\* C11: activeRooms() is exactly the set of room labels that an active
\* identity has as its room, each label once: the label of a join is listed
\* at once, and a label is gone when the last identity with it has left.
C11_ActiveRoomsExact ==
    /\ Range(getActiveRooms) = {u.room : u \in ActiveIdentities}
    /\ Len(getActiveRooms) = Cardinality(Range(getActiveRooms))
    /\ (last.op = "join" /\ last.ret.success) => last.room \in Range(getActiveRooms)
    /\ (/\ last.op = "leave"
        /\ last.ret # undefined
        /\ \A u \in ActiveIdentities : u.room # last.ret.room)
       => last.ret.room \notin Range(getActiveRooms)

\* the last member of a room has left while two identities share another room
C11_Witness ==
    /\ last.op = "leave"
    /\ last.ret # undefined
    /\ last.ret.room \notin Range(getActiveRooms)
    /\ Len(users) = 1
    /\ Len(getActiveRooms) = 1

\* C12: two different labels returned by activeRooms() in one state never
\* have a member in common.
C12_ActiveLabelsDisjoint ==
    \A i, j \in 1..Len(getActiveRooms) :
        i # j =>
            MembersOf(getActiveRooms[i]) \cap MembersOf(getActiveRooms[j]) = {}

-----------------------------------------------------------------------------
(* Properties of the handlers *)

\* C13: a joinRoom request whose room is empty after trimming fails
\* validation, so the registry is never called with an empty room and every
\* identity in it has a non-empty room.
C13_RoomNeverEmpty ==
    /\ last.op = "join" => last.room # <<>>
    /\ \A i \in 1..Len(users) : users[i].room # <<>>

\* C14: a chatMessage whose text is empty after trimming fails validation,
\* so no message with an empty text is ever emitted.
C14_NoEmptyMessage ==
    \A i \in 1..Len(outbox) :
        outbox[i].event = "message" => outbox[i].payload.text # <<>>

HtmlCharacters == {"<", ">", "\"", "'"}

\* s with every HTML character replaced by its entity, in one pass
RECURSIVE EntityEscaped(_)
EntityEscaped(s) ==
    IF Len(s) = 0 THEN <<>>
    ELSE IF Len(s) = 1 THEN escapeChar(s[1])
    ELSE LET half == Len(s) \div 2 IN
         EntityEscaped(SubSeq(s, 1, half)) \o EntityEscaped(SubSeq(s, half + 1, Len(s)))

\* the events of the last handler that carry a chat message (the bot's
\* notices are messages too, under the bot's name)
ChatMessages ==
    {outbox[i].payload : i \in {j \in 1..Len(outbox) :
        outbox[j].event = "message" /\ outbox[j].payload.username # BotName}}

AcceptedMessageOutputsEscaped ==
    \A raw \in MessageInputs \cup RawMessages :
        messageSchema(raw).success =>
            /\ Range(messageSchema(raw).data) \cap HtmlCharacters = {}
            /\ messageSchema(raw).data = EntityEscaped(trim(raw))

\* C15: the output of messageSchema for an accepted raw message contains none
\* of the characters < > " ' (each is replaced by its entity), and the text of
\* every chat message emitted to a room is the output of messageSchema for an
\* accepted raw message.
C15_ChatTextEscaped ==
    /\ AcceptedMessageOutputsEscaped
    /\ \A m \in ChatMessages :
           /\ Range(m.text) \cap HtmlCharacters = {}
           /\ \E raw \in RawMessages :
                  messageSchema(raw).success /\ m.text = messageSchema(raw).data

C15_Witness ==
    \E m \in ChatMessages :
        m.text = <<"&", "l", "t", ";", "b", "&", "q", "u", "o", "t", ";",
                   "&", "#", "x", "2", "7", ";", "&", "g", "t", ";">>

-----------------------------------------------------------------------------
(* Properties of the schemas *)

\* C16: a schema applied to a value it returned succeeds and returns that
\* value again, for usernameSchema, roomSchema and messageSchema.
C16_ValidatorsIdempotent ==
    validation.step = "validated again" =>
        /\ validation.again.success
        /\ validation.again.data = validation.result.data

\* the part of raw between its leading and its trailing whitespace
Trimmed(raw) ==
    CHOOSE t \in {SubSeq(raw, i, j) : i \in 1..Len(raw) + 1, j \in 0..Len(raw)} :
        \E i \in 1..Len(raw) + 1, j \in 0..Len(raw) :
            /\ t = SubSeq(raw, i, j)
            /\ \A k \in 1..i - 1 : isWhitespace(raw[k])
            /\ \A k \in j + 1..Len(raw) : isWhitespace(raw[k])
            /\ t # <<>> => ~isWhitespace(t[1]) /\ ~isWhitespace(t[Len(t)])

UsernameCharacters ==
    LowerSet \cup UpperSet \cup Digits \cup {"_", "-"}

\* C17: usernameSchema succeeds, with the trimmed string as its value,
\* exactly when the trimmed string has 2 to 20 characters, all of them in
\* [A-Za-z0-9_-]; it fails with the too-short message below 2 characters, with
\* the too-long message above 20, and with the invalid-characters message
\* otherwise.
C17_UsernameRule ==
    (validation.schema = "username" /\ validation.step = "validated") =>
        LET t == Trimmed(validation.raw)
            result == validation.result
        IN /\ result.success <=>
                  /\ Len(t) >= 2
                  /\ Len(t) <= 20
                  /\ Range(t) \subseteq UsernameCharacters
           /\ result.success => result.data = t
           /\ ~result.success =>
                  result.error.message =
                      IF Len(t) < 2 THEN "Username must be at least 2 characters"
                      ELSE IF Len(t) > 20 THEN "Username must be at most 20 characters"
                      ELSE "Username can only contain letters, numbers, underscores, and hyphens"

C17_Witness ==
    /\ validation.schema = "username"
    /\ validation.step = "validated"
    /\ validation.result.success
    /\ validation.result.data # validation.raw
    /\ Len(validation.result.data) = UsernameMax

-----------------------------------------------------------------------------
(* Properties of handleChatMessage *)

Joined(socket) == sockets[socket] = "open" /\ findById(socket) # undefined

\* C18: when a joined connection sends a chatMessage that passes validation,
\* one message event carrying the sender's display name and the sanitized
\* text is emitted, and it is delivered to every member of the sender's room,
\* the sender included, once each.
C18_ChatReachesRoom ==
    [][\A s \in SocketIds, msg \in RawMessages :
        (OnChatMessage(s, msg) /\ Joined(s) /\ messageSchema(msg).success) =>
            LET user == findById(s) IN
            /\ Len(outbox') = 1
            /\ outbox'[1].event = "message"
            /\ outbox'[1].payload = format(user.username, messageSchema(msg).data)
            /\ s \in outbox'[1].to
            /\ \A member \in MembersOf(user.room) : member.id \in outbox'[1].to
      ]_vars

NeverJoined(socket) ==
    sockets[socket] = "open" /\ socketData[socket] = undefined /\ findById(socket) = undefined

UserNotFound ==
    [code |-> "USER_NOT_FOUND", message |-> "You must join a room first"]

\* C19: a chatMessage from a connection that never joined produces one error
\* event with code USER_NOT_FOUND, delivered to that connection only; nothing
\* else is emitted and the registry is unchanged, whatever the message text.
C19_ChatBeforeJoin ==
    [][\A s \in SocketIds, msg \in RawMessages :
        (OnChatMessage(s, msg) /\ NeverJoined(s)) =>
            /\ outbox' = <<emit({s}, "error", UserNotFound)>>
            /\ RegistryUnchanged
      ]_vars

C19_Witness ==
    \E s \in SocketIds :
        /\ NeverJoined(s)
        /\ outbox = <<emit({s}, "error", UserNotFound)>>
        /\ Len(users) >= 1

InvalidMessage(message) == [code |-> "INVALID_MESSAGE", message |-> message]

\* C20: when a joined connection sends a chatMessage that fails validation,
\* exactly one error event with code INVALID_MESSAGE is emitted, to the
\* requester only; no other connection receives anything and the registry is
\* unchanged.
C20_InvalidChat ==
    [][\A s \in SocketIds, msg \in RawMessages :
        (OnChatMessage(s, msg) /\ Joined(s) /\ ~messageSchema(msg).success) =>
            /\ Len(outbox') = 1
            /\ outbox'[1].to = {s}
            /\ outbox'[1].event = "error"
            /\ outbox'[1].payload.code = "INVALID_MESSAGE"
            /\ outbox'[1].payload = InvalidMessage(validate(messageSchema(msg)).error.message)
            /\ RegistryUnchanged
      ]_vars

C20_Witness ==
    \E s \in SocketIds :
        /\ Joined(s)
        /\ outbox = <<emit({s}, "error", InvalidMessage("Message cannot be empty"))>>
        /\ \E other \in SocketIds \ {s} :
               Joined(other) /\ findById(s).room \in socketRooms[other]

-----------------------------------------------------------------------------
(* Properties of handleJoinRoom *)

ConnectionUnchanged(socket) ==
    /\ socketData'[socket] = socketData[socket]
    /\ socketRooms'[socket] = socketRooms[socket]
    /\ findById(socket)' = findById(socket)

\* C21: a joinRoom request whose name or room fails validation emits one
\* usernameError event, to the requester only; no identity is created, the
\* connection is subscribed to no room it was not subscribed to, an
\* unjoined connection stays unjoined, and no other connection receives
\* anything.
C21_InvalidJoin ==
    [][\A s \in SocketIds, data \in JoinRoomPayloads :
        (request' = JoinRoomEvent(s, data) /\ ~validate(joinRoomSchema(data)).success) =>
            /\ outbox' = <<emit({s}, "usernameError",
                                validate(joinRoomSchema(data)).error.message)>>
            /\ last' = NoCall
            /\ RegistryUnchanged
            /\ ConnectionUnchanged(s)
            /\ NeverJoined(s) => NeverJoined(s)'
      ]_vars

C21_Witness ==
    \E s \in SocketIds :
        /\ request.event = "joinRoom"
        /\ request.socket = s
        /\ request.data # undefined
        /\ NeverJoined(s)
        /\ socketRooms[s] = {}
        /\ last = NoCall
        /\ outbox = <<emit({s}, "usernameError", "Username must be at least 2 characters")>>
        /\ \E other \in SocketIds \ {s} : Joined(other)

NameTaken == "Username is already taken"

\* C22: a joinRoom request from an unjoined connection whose validated name
\* is already taken emits one usernameError event, to the requester only; the
\* connection stays unjoined and is subscribed to no room, and neither a
\* welcome, nor a joined notice, nor a snapshot is emitted.
C22_NameTakenJoin ==
    [][\A s \in SocketIds, data \in JoinRoomPayloads :
        (/\ request' = JoinRoomEvent(s, data)
         /\ NeverJoined(s)
         /\ validate(joinRoomSchema(data)).success
         /\ findByUsername(validate(joinRoomSchema(data)).data.username) # undefined) =>
            /\ outbox' = <<emit({s}, "usernameError", NameTaken)>>
            /\ RegistryUnchanged
            /\ NeverJoined(s)'
            /\ socketRooms'[s] = {}
      ]_vars

C22_Witness ==
    \E s \in SocketIds :
        /\ request.event = "joinRoom"
        /\ request.socket = s
        /\ NeverJoined(s)
        /\ socketRooms[s] = {}
        /\ last.op = "join"
        /\ last.id = s
        /\ ~last.ret.success
        /\ outbox = <<emit({s}, "usernameError", NameTaken)>>
        /\ \E other \in SocketIds \ {s} :
               Joined(other) /\ last.room \in socketRooms[other]

\* the step is the handling of a joinRoom event of socket s that the
\* registry accepted
JoinedNow(s) ==
    /\ request'.event = "joinRoom"
    /\ request'.socket = s
    /\ last'.op = "join"
    /\ last'.ret.success

\* C23: a successful join emits exactly three events, in the order welcome
\* to the joiner, joined notice to the others, membership snapshot to the
\* room; the handler runs to completion, so nothing is emitted in between.
C23_JoinEventOrder ==
    [][\A s \in SocketIds : JoinedNow(s) =>
        /\ Len(outbox') = 3
        /\ outbox'[1] = emit({s}, "message", welcome)
        /\ outbox'[2].event = "message"
        /\ outbox'[2].payload = userJoined(last'.ret.data.username)
        /\ outbox'[3].event = "roomUsers"
        /\ outbox'[3].payload.room = last'.ret.data.room
      ]_vars

C23_Witness ==
    /\ request.event = "joinRoom"
    /\ last.op = "join"
    /\ last.ret.success
    /\ Len(outbox) = 3
    /\ outbox[2].to # {}
    /\ outbox[2].payload = userJoined(last.ret.data.username)
    /\ outbox[3].event = "roomUsers"
    /\ Cardinality(outbox[3].to) = 2

\* C24: on a successful join the welcome is delivered to the joiner only,
\* and the joined notice to every other member of the joined room and never
\* to the joiner.
C24_WelcomeAndNotice ==
    [][\A s \in SocketIds, user \in UserRecords :
        (JoinedNow(s) /\ user = last'.ret.data) =>
            /\ outbox'[1] = emit({s}, "message", welcome)
            /\ outbox'[2].payload = userJoined(user.username)
            /\ s \notin outbox'[2].to
            /\ \A member \in MembersOf(user.room)' \ {user} : member.id \in outbox'[2].to
      ]_vars

\* C25: the membership snapshot emitted after a successful join is delivered
\* to every identity it lists, the new joiner included.
C25_SnapshotReachesListed ==
    [][\A s \in SocketIds : JoinedNow(s) =>
        /\ outbox'[3].event = "roomUsers"
        /\ s \in outbox'[3].to
        /\ last'.ret.data \in Range(outbox'[3].payload.users)
        /\ \A member \in Range(outbox'[3].payload.users) : member.id \in outbox'[3].to
      ]_vars

\* C26: a connection that receives a snapshot listing a name that joined
\* after it did has received the joined notice of that name before.
C26_AnnouncedBeforeListed ==
    \A i \in 1..Len(outbox) :
        outbox[i].event = "roomUsers" =>
            \A t \in outbox[i].to, u \in Range(outbox[i].payload.users) :
                u.username \notin unannounced[t]

-----------------------------------------------------------------------------
(* Properties of handleDisconnect *)

\* C27: when a joined connection disconnects, the user-left message and
\* then a fresh snapshot are delivered to the remaining members of its room;
\* the snapshot does not list the leaver and the leaver receives neither.
\* When an unjoined connection disconnects nothing is emitted.
C27_DisconnectNotifiesRoom ==
    [][\A s \in SocketIds :
        request' = DisconnectEvent(s) =>
            /\ findById(s) = undefined => outbox' = <<>>
            /\ \A user \in UserRecords : user = findById(s) =>
                   /\ Len(outbox') = 2
                   /\ outbox'[1].event = "message"
                   /\ outbox'[1].payload = userLeft(user.username)
                   /\ outbox'[2].event = "roomUsers"
                   /\ outbox'[2].payload.users = getRoomUsers(user.room)'
                   /\ user \notin Range(outbox'[2].payload.users)
                   /\ s \notin outbox'[1].to \cup outbox'[2].to
                   /\ \A member \in MembersOf(user.room)' :
                          member.id \in outbox'[1].to \cap outbox'[2].to
      ]_vars

Disconnected(socket) == sockets[socket] = "closed"

\* C28: every disconnect calls leave for the connection, joined or not; a
\* connection whose disconnect has been handled has no identity, and once
\* every connection has disconnected the registry is empty, no room is
\* active and every name is available.
C28_DisconnectAlwaysLeaves ==
    /\ request.event = "disconnect" =>
           last.op = "leave" /\ last.id = request.socket
    /\ \A s \in SocketIds : Disconnected(s) => findById(s) = undefined
    /\ (\A s \in SocketIds : Disconnected(s)) =>
           /\ users = <<>>
           /\ getActiveRooms = <<>>
           /\ \A username \in Usernames : isUsernameAvailable(username)

C28_Witness ==
    /\ \A s \in SocketIds : Disconnected(s)
    /\ request.event = "disconnect"
    /\ last.op = "leave"
    /\ last.ret # undefined
    /\ TotalJoins >= 2
    /\ users = <<>>

\* C29: a leaveRoom event from a joined connection removes the connection's
\* identity from the registry, and the remaining members of its room receive
\* the user-left message and a fresh snapshot.
C29_LeaveRoomLeaves ==
    [][\A s \in SocketIds :
        (request' = LeaveRoomEvent(s) /\ findById(s) # undefined) =>
            /\ findById(s)' = undefined
            /\ \E i, j \in 1..Len(outbox') :
                   /\ i < j
                   /\ outbox'[i].event = "message"
                   /\ outbox'[i].payload = userLeft(findById(s).username)
                   /\ outbox'[j].event = "roomUsers"
      ]_vars

-----------------------------------------------------------------------------
(* Properties of handleTyping *)

\* C30: a typing event from a joined connection is forwarded as one
\* userTyping event with the sender's display name and the isTyping flag, to
\* every other member of the sender's room and never to the sender; a typing
\* event from an unjoined connection emits nothing.
C30_TypingForwarded ==
    [][\A s \in SocketIds, data \in TypingPayloads \ {undefined} :
        request' = TypingEvent(s, data) =>
            /\ NeverJoined(s) => outbox' = <<>>
            /\ \A user \in UserRecords : (Joined(s) /\ user = findById(s)) =>
                   /\ Len(outbox') = 1
                   /\ outbox'[1].event = "userTyping"
                   /\ outbox'[1].payload =
                          [username |-> user.username, isTyping |-> data.isTyping]
                   /\ s \notin outbox'[1].to
                   /\ \A member \in MembersOf(user.room) \ {user} :
                          member.id \in outbox'[1].to
      ]_vars

-----------------------------------------------------------------------------
(* Properties of the server as a whole *)

\* C31: no inbound event is fatal: whatever event and payload a connection
\* sends, the handler completes and the process keeps running.
C31_NoFatalEvent == process = "running"

\* C32: after a join or disconnect handler has completed, every open
\* connection with an identity holds, as the last snapshot delivered to it
\* for its room, exactly the current members of that room.
C32_SnapshotsCurrent ==
    request.event \in {"joinRoom", "disconnect"} =>
        \A t \in DOMAIN sockets :
            (sockets[t] = "open" /\ findById(t) # undefined) =>
                /\ snapshots[t][findById(t).room] # undefined
                /\ snapshots[t][findById(t).room].users = getRoomUsers(findById(t).room)

\* C33: in every reachable state the open connections subscribed to the
\* broadcast group of a room label are exactly the connections whose
\* registry identity has that room.
C33_SubscribersAreMembers ==
    \A room \in Rooms :
        ioTo(room) = {s \in DOMAIN sockets :
                         /\ sockets[s] = "open"
                         /\ findById(s) # undefined
                         /\ findById(s).room = room}

\* C34: for every open connection the identity cached on the connection is
\* set exactly when the registry holds an identity for the connection id,
\* and the two are equal.
C34_CacheMatchesRegistry ==
    \A s \in DOMAIN sockets :
        sockets[s] = "open" =>
            /\ (socketData[s] # undefined) <=> (findById(s) # undefined)
            /\ socketData[s] = findById(s)

C34_Witness ==
    \E s, t \in DOMAIN sockets :
        /\ sockets[s] = "open" /\ sockets[t] = "open"
        /\ Cardinality(socketRooms[s]) = 2
        /\ socketData[s] # undefined /\ socketData[s] = findById(s)
        /\ socketData[t] = undefined /\ findById(t) = undefined

====
